---- MODULE Spec2Model ----
(***************************************************************************)
(* Offline-resilient synchronization layer of the Graha Fitness frontend   *)
(* (src/unnamed/part_000): the api() call wrapper, the offline queue kept  *)
(* in localStorage, the online/offline listeners, the drain pass           *)
(* syncOfflineData() and the sync indicator.                               *)
(*                                                                         *)
(* The program is single-threaded and event-driven: every action below is  *)
(* one run-to-completion step, from an event or a promise resolution to    *)
(* the next await.  Two awaits are folded into the step that follows them, *)
(* because nothing the program keeps is read or written before them:       *)
(*  - api() writes nothing until its fetch settles, so a call is the one   *)
(*    step taken when it returns (ApiCall for a UI action, ReplaySettles   *)
(*    for a replay); any number of UI calls may be in flight, in any order.*)
(*    Where the token read at the call matters (AuthSpec), the call and    *)
(*    its settling are two steps;                                          *)
(*  - the body of a response is read after its headers (res.json(), lines  *)
(*    348 and 351) and only the throw or the return follows, so a call     *)
(*    settles in the step in which its body has been read or has failed to *)
(*    parse; a call whose body never arrives stays in flight.              *)
(***************************************************************************)
EXTENDS Integers, Sequences, FiniteSets, TLC

\* ---------------------------------------------------------------- bounds
MaxPasses  == 2   \* syncOfflineData() invocations suspended at the same time
MaxEnqueue == 2   \* entries ever created by addToOfflineQueue
MaxInFlight == 1  \* calls of UI actions in flight whose token is followed

\* ------------------------------------------------------------- constants
\* The JavaScript value undefined; a key with this value stands for a key
\* that is absent as well (the code reads both as undefined).
Undefined == "undefined"

\* ------------------------------------------------------------- variables
VARIABLES
  queue,      \* localStorage['gf_offline_queue'], as the parsed list
  onLine,     \* navigator.onLine
  now,        \* the value Date.now() returned last
  session,    \* sessionStorage['gf_session']: "none" or a stored record
  screen,     \* "login" (loginOverlay shown) or "app" (appShell shown)
  ind,        \* #syncIndicator and #btnSyncNow
  appShown,   \* history: the application shell has been shown, so that
              \* api() calls of its UI actions may be in flight
  pass,       \* the suspended syncOfflineData() invocations, oldest first; the
              \* fields sent, failed and size of a pass are history: the uids of
              \* the entries it has called api() for, of those whose replay
              \* threw, and the length of the list the pass read at its start
  nextUid,    \* history: number of entries created so far, plus one
  succeeded,  \* history, kept by RetrySpec only: uids of the entries whose
              \* replay has succeeded
  last,       \* the api() call that has just settled and whose caller (a UI
              \* action, or the pass last.pass) has not resumed yet; the fields
              \* besides ret and pass are history
  lastDone,   \* history: the drain pass that has run to its end and whose
              \* promise has not resolved yet
  lastEvent,  \* history: the listener that has just run, with the state it
              \* found and the indicator at its call of syncOfflineData()
  failedEver, \* history, kept by RetrySpec only: uids of the entries whose
              \* replay has failed
  store,      \* what localStorage['gf_offline_queue'] holds: raw is "list"
              \* when it parses to the list queue (or is absent, queue being
              \* empty), else the kind of text it holds; op and raised are
              \* history: the last operation on it, and whether it raised
  ui,         \* the UI action that called api() last and, once it has
              \* resumed, what it has shown to the user
  applied,    \* history, kept by AppliedSpec only: for every entry, the number
              \* of times the server has applied the user action it stands for
  auth,       \* history, kept by AuthSpec only: owner is the session every
              \* entry was created under, sentAs the session whose token the
              \* latest replay of it carried, login the state of the login form
  sw          \* the fetch event the service worker has handled last

vars == <<queue, onLine, now, session, screen, ind, appShown, pass,
          nextUid, succeeded, last, lastDone, lastEvent, failedEver, store, ui,
          applied, auth, sw>>

\* ------------------------------------------------------- request helpers
\* JSON.stringify(data) of the object literals the UI actions pass.
StringifyData(data) ==
  CASE data = "empty" -> "{}"
    [] data = "nameA" -> "{\"name\":\"A\"}"
    [] data = "loginA" -> "{\"username\":\"A\",\"password\":\"secretA\"}"
    [] data = "loginB" -> "{\"username\":\"B\",\"password\":\"secretB\"}"
    [] OTHER          -> Undefined

apiGet(path)        == [endpoint |-> path, options |-> [method |-> Undefined, body |-> Undefined]]
apiPost(path, data) == [endpoint |-> path, options |-> [method |-> "POST", body |-> StringifyData(data)]]
apiPut(path, data)  == [endpoint |-> path, options |-> [method |-> "PUT", body |-> StringifyData(data)]]
apiDelete(path)     == [endpoint |-> path, options |-> [method |-> "DELETE", body |-> Undefined]]

\* The calls the UI actions of the model make.
UIRequests ==
  { apiPut("/members/123", "nameA"),
    apiDelete("/members/123"),
    apiGet("/members") }

\* JSON.stringify(options): the keys in insertion order, a key whose value
\* is undefined is left out.
JSONStringify(options) ==
  (IF options.method # Undefined THEN <<"method", options.method>> ELSE <<>>)
  \o (IF options.body # Undefined THEN <<"body", options.body>> ELSE <<>>)

isMutationAnyMethod(options) == TRUE
isMutation(options) == options.method \in {"POST", "PUT", "DELETE"}

\* ------------------------------------------------- outcomes of one fetch
\* fetch() resolves with a response or rejects (error name/message).  Of a
\* response the program reads the status and, through res.json(), the body:
\* body is "json" when the body parses to an object, "null" when it parses
\* to null and "text" when it does not parse; detail is the detail property
\* of a parsed object ("" when it has none or a falsy one).
ResponseBody(status, body, detail) ==
  [kind |-> "response", status |-> status, name |-> "", message |-> "",
   body |-> body, detail |-> detail]
Rejection(name, message) ==
  [kind |-> "reject", status |-> 0, name |-> name, message |-> message,
   body |-> "none", detail |-> ""]

\* A response whose body is JSON without a detail.
Response(status) == ResponseBody(status, "json", "")

\* res.ok
isOk(status) == status \in 200..299

AbortError    == Rejection("AbortError", "The user aborted a request.")
FailedToFetch == Rejection("TypeError", "Failed to fetch")
NetworkError  == Rejection("TypeError", "NetworkError when attempting to fetch resource.")

\* A response the server words like a failure of the network, and a success
\* response whose body is not JSON.
DetailFailedToFetch == ResponseBody(500, "json", "Failed to fetch")
TextBody == ResponseBody(200, "text", "")

Outcomes ==
  { Response(200), Response(401), Response(403), Response(500),
    AbortError, FailedToFetch, NetworkError, DetailFailedToFetch, TextBody }

\* The error the try block of api() throws for an outcome of fetch.
ErrorOf(outcome) ==
  IF outcome.kind = "reject" THEN [name |-> outcome.name, message |-> outcome.message]
  ELSE IF outcome.status = 401 THEN [name |-> "Error", message |-> "Session expired"]
  ELSE IF outcome.status = 403 THEN [name |-> "Error", message |-> "Forbidden"]
  ELSE IF ~isOk(outcome.status) /\ outcome.body = "null"
  THEN [name |-> "TypeError", message |-> "Cannot read properties of null"]
  ELSE IF ~isOk(outcome.status)
  THEN [name |-> "Error",
        message |-> IF outcome.body # "json" THEN "Request failed"
                    ELSE IF outcome.detail = "" THEN "API error"
                    ELSE outcome.detail]
  ELSE [name |-> "SyntaxError", message |-> "Unexpected token in JSON"]

\* ------------------------------------------------------------ the queue
getOfflineQueue == queue

\* new Date().toISOString(): the instant as ISO-8601 text.
toISOString(t) == <<"1970-01-01T00:00:00.00", t, "Z">>

isDupByIdentity(q, endpoint, options) ==
  \E k \in 1..Len(q) : q[k].endpoint = endpoint /\ FALSE
isDup(q, endpoint, options) ==
  \E k \in 1..Len(q) :
    /\ q[k].endpoint = endpoint
    /\ JSONStringify(q[k].options) = JSONStringify(options)

\* The entry addToOfflineQueue pushes when Date.now() (line 397) is t and
\* the new Date() read after it (line 400) is the instant t2.  uid and orig
\* are history fields the code never reads: uid tells the entries apart,
\* orig keeps the values the entry was created with.
newEntry(endpoint, options, t, t2) ==
  [id |-> t, endpoint |-> endpoint, options |-> options,
   timestamp |-> toISOString(t2), uid |-> nextUid,
   orig |-> [id |-> t, endpoint |-> endpoint, options |-> options,
             timestamp |-> toISOString(t2)]]

\* The list addToOfflineQueue(endpoint, options) saves when its two readings
\* of the clock are t and t2; the list is left as it is for a duplicate.
addToOfflineQueueUniqueId(q, endpoint, options, t, t2) ==
  IF isDup(q, endpoint, options) \/ \E k \in 1..Len(q) : q[k].id = t THEN q
  ELSE Append(q, newEntry(endpoint, options, t, t2))
addToOfflineQueue(q, endpoint, options, t, t2) ==
  IF isDup(q, endpoint, options) THEN q
  ELSE Append(q, newEntry(endpoint, options, t, t2))

\* ------------------------------------------------------- the indicator
PendingText(n) == <<"Pending", n>>
OnlineText     == <<"Online", 0>>
OfflineText    == <<"Offline", 0>>
SyncingText    == <<"Syncing...", 0>>

updateSyncIndicatorNoCount(i, q, isOnline) ==
  IF isOnline
  THEN [i EXCEPT !.cls = "online",
                 !.text = OnlineText,
                 !.btnHidden = (Len(q) = 0),
                 !.btnDisabled = FALSE]
  ELSE [i EXCEPT !.cls = "offline",
                 !.text = OfflineText,
                 !.btnHidden = TRUE]
updateSyncIndicator(i, q, isOnline) ==
  IF isOnline
  THEN [i EXCEPT !.cls = "online",
                 !.text = IF Len(q) > 0 THEN PendingText(Len(q)) ELSE OnlineText,
                 !.btnHidden = (Len(q) = 0),
                 !.btnDisabled = FALSE]
  ELSE [i EXCEPT !.cls = "offline",
                 !.text = OfflineText,
                 !.btnHidden = TRUE]

\* The table of translations: for each language, the text of each key.  A
\* key written twice in the source has the text written last.
translationsTable ==
  [id |-> [
    dashboard |-> "Dasbor", members |-> "Anggota", finance |-> "Keuangan",
    stock |-> "Stok Barang", scan |-> "Scan Check-in",
    welcome |-> "Selamat Datang", logout |-> "Keluar",
    loading |-> "Memuat data...", active |-> "AKTIF",
    expired |-> "KEDALUWARSA", search |-> "Cari...",
    new_member |-> "Anggota Baru", new_transaction |-> "Transaksi Baru",
    add_item |-> "Tambah Barang", total_members |-> "Total Anggota",
    active_members |-> "Anggota Aktif",
    monthly_income |-> "Pendapatan Bulan Ini",
    monthly_expense |-> "Pengeluaran Bulan Ini", profit |-> "Keuntungan",
    member_name |-> "Nama Anggota", phone |-> "No. Telepon",
    plan |-> "Paket", status |-> "Status", expires |-> "Kedaluwarsa",
    actions |-> "Aksi", save |-> "Simpan", cancel |-> "Batal",
    delete |-> "Hapus", edit |-> "Edit",
    checkin_success |-> "Selamat Datang", checkin_failed |-> "Akses Ditolak",
    scan_prompt |-> "Scan QR, No. HP, atau Member ID...",
    scan_btn |-> "Check In", camera_btn |-> "Scan Kamera",
    stop_camera |-> "Stop Kamera",
    membership_expired |-> "Keanggotaan kedaluwarsa pada",
    checked_in_at |-> "Check-in pada", income |-> "Pendapatan",
    expense |-> "Pengeluaran", category |-> "Kategori", amount |-> "Jumlah",
    note |-> "Catatan", items |-> "Barang", username |-> "Nama Pengguna",
    password |-> "Kata Sandi", sign_in |-> "Masuk",
    sign_in_hint |-> "Masuk ke akun Anda",
    placeholder_user |-> "Masukkan nama pengguna",
    placeholder_pass |-> "Masukkan kata sandi",
    dash_subtitle |-> "Ringkasan operasional gym Anda",
    today_checkins |-> "Check-in Hari Ini",
    low_stock |-> "Alert Stok Rendah",
    recent_activity |-> "Aktivitas Terkini",
    expiring_soon |-> "Keanggotaan Akan Berakhir",
    members_header |-> "Anggota & Presensi",
    members_subtitle |-> "Kelola keanggotaan, check-in, dan absensi",
    placeholder_search_mem |-> "Cari anggota...",
    members_empty |-> "Belum ada anggota. Tambahkan anggota pertama Anda!",
    today_attendance |-> "Presensi Hari Ini",
    finance_header |-> "Catatan Keuangan",
    finance_subtitle |-> "Pantau pendapatan, pengeluaran, dan profit",
    net_profit |-> "Laba Bersih", all_months |-> "Semua Bulan",
    all_types |-> "Semua Tipe", export_report |-> "Ekspor Laporan",
    date |-> "Tanggal", type |-> "Tipe", reference |-> "Referensi",
    finance_empty |-> "Belum ada transaksi. Mulai catat keuangan Anda!",
    stock_header |-> "Stok Barang",
    stock_subtitle |-> "Manajemen inventaris dan alert stok",
    placeholder_search_items |-> "Cari barang...",
    stock_movement |-> "Pergerakan Stok",
    stock_empty |-> "Belum ada barang. Tambahkan barang pertama Anda!",
    scan_subtitle |-> "Anggota dapat check-in dengan scan kode QR",
    scan_instruction |-> "Masukkan atau tempel ID anggota untuk check-in",
    start_date |-> "Tanggal Mulai", end_date |-> "Tanggal Selesai",
    delete_records |-> "Hapus Catatan",
    clear_attendance |-> "Hapus Log Presensi", update |-> "Perbarui",
    add |-> "Tambah", added |-> "Ditambahkan", removed |-> "Dihapus",
    no_member |-> "Bukan Anggota", no_item |-> "Bukan Barang",
    optional |-> "opsional", transaction |-> "Transaksi",
    link_member |-> "Hubungkan ke Anggota",
    link_item |-> "Hubungkan ke Barang",
    low_stock_threshold |-> "Ambang Stok Rendah",
    item_name |-> "Nama Barang", quantity |-> "Jumlah", unit |-> "Satuan",
    recent_activity_empty |-> "Tidak ada aktivitas terbaru",
    expiring_empty |-> "Tidak ada keanggotaan yang akan berakhir",
    confirm_clear_attendance |-> "Apakah Anda yakin ingin menghapus SEMUA catatan presensi dari {start} ke {end}?",
    confirm_delete_member |-> "Hapus anggota ini? Tindakan ini tidak dapat dibatalkan.",
    confirm_delete_stock |-> "Hapus barang stok ini?",
    clear_attendance_warning |-> "Ini akan menghapus catatan presensi secara permanen dalam rentang yang dipilih.",
    access_denied |-> "Akses Ditolak", camera_error |-> "Kesalahan kamera: ",
    scan_camera |-> "Scan Kamera", share_wa |-> "Bagikan via WhatsApp",
    download_qr |-> "Unduh QR", member_qr |-> "Kode QR Anggota",
    invalid_login |-> "Nama pengguna atau kata sandi salah",
    online |-> "Online", sync_now |-> "Sinkron Sekarang",
    attendance_empty |-> "Belum ada check-in hari ini",
    confirm_delete_attendance |-> "Hapus catatan check-in ini?",
    expiring |-> "Akan Berakhir", checkin |-> "Check-in",
    low_stock_btn |-> "Stok Rendah" ],
   en |-> [
    dashboard |-> "Dashboard", members |-> "Members", finance |-> "Finance",
    stock |-> "Food Stock", scan |-> "Scan Check-in", welcome |-> "Welcome",
    logout |-> "Logout", loading |-> "Loading data...", active |-> "ACTIVE",
    expired |-> "EXPIRED", search |-> "Search...",
    new_member |-> "New Member", new_transaction |-> "New Transaction",
    add_item |-> "Add Item", total_members |-> "Total Members",
    active_members |-> "Active Members", monthly_income |-> "Monthly Income",
    monthly_expense |-> "Monthly Expense", profit |-> "Profit",
    member_name |-> "Member Name", phone |-> "Phone", plan |-> "Plan",
    status |-> "Status", expires |-> "Expires", actions |-> "Actions",
    save |-> "Save", cancel |-> "Cancel", delete |-> "Delete",
    edit |-> "Edit", checkin_success |-> "Welcome",
    checkin_failed |-> "Access Denied",
    scan_prompt |-> "Scan QR, Phone, or Member ID...",
    scan_btn |-> "Check In", camera_btn |-> "Scan Camera",
    stop_camera |-> "Stop Camera",
    membership_expired |-> "Membership expired on",
    checked_in_at |-> "Checked in at", income |-> "Income",
    expense |-> "Expense", category |-> "Category", amount |-> "Amount",
    note |-> "Note", items |-> "Items", username |-> "Username",
    password |-> "Password", sign_in |-> "Sign In",
    sign_in_hint |-> "Sign in to your account",
    placeholder_user |-> "Enter username",
    placeholder_pass |-> "Enter password",
    dash_subtitle |-> "Overview of your gym operations",
    today_checkins |-> "Today's Check-ins", low_stock |-> "Low Stock Alerts",
    recent_activity |-> "Recent Activity",
    expiring_soon |-> "Expiring Memberships",
    members_header |-> "Members & Attendance",
    members_subtitle |-> "Manage memberships, check-ins, and absences",
    placeholder_search_mem |-> "Search members...",
    members_empty |-> "No members yet. Add your first member!",
    today_attendance |-> "Today's Attendance",
    finance_header |-> "Financial Records",
    finance_subtitle |-> "Track income, expenses, and overall profitability",
    net_profit |-> "Net Profit", all_months |-> "All Months",
    all_types |-> "All Types", export_report |-> "Export Report",
    date |-> "Date", type |-> "Type", reference |-> "Reference",
    finance_empty |-> "No transactions yet. Start tracking your finances!",
    stock_header |-> "Food Stock",
    stock_subtitle |-> "Inventory management and stock alerts",
    placeholder_search_items |-> "Search items...",
    stock_movement |-> "Stock Movement",
    stock_empty |-> "No stock items yet. Add your first item!",
    scan_subtitle |-> "Members can check in by scanning their QR code",
    scan_instruction |-> "Enter or paste a member ID to check in",
    start_date |-> "Start Date", end_date |-> "End Date",
    delete_records |-> "Delete Records",
    clear_attendance |-> "Clear Attendance Logs", update |-> "Update",
    add |-> "Add", added |-> "Added", removed |-> "Removed",
    no_member |-> "No Member", no_item |-> "No Item",
    optional |-> "optional", transaction |-> "Transaction",
    link_member |-> "Link to Member", link_item |-> "Link to Stock Item",
    low_stock_threshold |-> "Low-Stock Threshold", item_name |-> "Item Name",
    quantity |-> "Quantity", unit |-> "Unit",
    recent_activity_empty |-> "No recent activity",
    expiring_empty |-> "No expiring memberships",
    confirm_clear_attendance |-> "Are you sure you want to delete ALL attendance records from {start} to {end}?",
    confirm_delete_member |-> "Delete this member? This cannot be undone.",
    confirm_delete_stock |-> "Delete this stock item?",
    clear_attendance_warning |-> "This will permanently delete attendance records within the selected range.",
    access_denied |-> "Access Denied", camera_error |-> "Camera error: ",
    scan_camera |-> "Scan Camera", share_wa |-> "Share via WhatsApp",
    download_qr |-> "Download QR", member_qr |-> "Member QR Code",
    invalid_login |-> "Invalid username or password", online |-> "Online",
    sync_now |-> "Sync Now", attendance_empty |-> "No check-ins today",
    confirm_delete_attendance |-> "Delete this check-in record?",
    expiring |-> "Expiring", checkin |-> "Check-in",
    low_stock_btn |-> "Low Stock" ]]

\* translations[lang][key], Undefined when the table has no such text.
translations(lang, key) ==
  IF lang \in DOMAIN translationsTable /\ key \in DOMAIN translationsTable[lang]
  THEN translationsTable[lang][key]
  ELSE Undefined

\* The languages of the language buttons; currentLang is 'id' when
\* localStorage holds none.
Languages == {"id", "en"}

\* applyTranslations(): innerHTML of every element with a data-i18n
\* attribute becomes the translation of its key in the current language,
\* when there is one.  Both languages translate "online" as 'Online'.

\* The data-i18n key of the .sync-text element of the indicator.  The markup
\* (index.html) is not among the sources; by the specification the text of
\* the indicator after a load is the one computed from the queue, so the
\* element is taken to carry no data-i18n attribute.
syncTextKey == Undefined

applyTranslationsTo(i, lang, key) ==
  IF key # Undefined /\ translations(lang, key) # Undefined
  THEN [i EXCEPT !.text = <<translations(lang, key), 0>>]
  ELSE i
applyTranslations(i, lang) == applyTranslationsTo(i, lang, syncTextKey)

\* ------------------------------------------------------------ api()
\* The catch block of api(): what the call returns for the error caught.
\* ret is "queued" for the sentinel and "throw" when the error is rethrown;
\* alert tells whether the timeout alert was shown.
apiCatchOfflineOnly(options, skipQueue, err, isOnline) ==
  [ret |-> IF ~isOnline /\ isMutation(options) /\ ~skipQueue THEN "queued" ELSE "throw",
   alert |-> err.name = "AbortError"]
apiCatchIgnoresSkipQueue(options, skipQueue, err, isOnline) ==
  LET isTimeout == err.name = "AbortError"
  IN [ret |-> IF /\ (isTimeout \/ ~isOnline \/ err.message = "Failed to fetch")
                 /\ isMutation(options)
              THEN "queued" ELSE "throw",
      alert |-> isTimeout]
apiCatchQueuesOfflineReplay(options, skipQueue, err, isOnline) ==
  LET isTimeout == err.name = "AbortError"
  IN [ret |-> IF \/ /\ (isTimeout \/ ~isOnline \/ err.message = "Failed to fetch")
                    /\ isMutation(options) /\ ~skipQueue
                 \/ ~isOnline /\ isMutation(options)
              THEN "queued" ELSE "throw",
      alert |-> isTimeout]
apiCatch(options, skipQueue, err, isOnline) ==
  LET isTimeout == err.name = "AbortError"
  IN [ret |-> IF /\ (isTimeout \/ ~isOnline \/ err.message = "Failed to fetch")
                 /\ isMutation(options) /\ ~skipQueue
              THEN "queued" ELSE "throw",
      alert |-> isTimeout]


\* What api() does once the outcome of its fetch is known: "ok" for a parsed
\* success body, else the result of the catch block.  The promise of
\* 'return res.json()' (line 351) is not awaited inside the try block: when
\* the body of a success response does not parse, api() rejects with the
\* SyntaxError and the catch block does not run.  alert tells whether an
\* alert was shown: 'Access denied' for a 403 response, or the timeout alert.
apiResult(options, skipQueue, outcome, isOnline) ==
  IF outcome.kind = "response" /\ isOk(outcome.status)
  THEN [ret |-> IF outcome.body \in {"json", "null"} THEN "ok" ELSE "throw",
        alert |-> FALSE]
  ELSE LET c == apiCatch(options, skipQueue, ErrorOf(outcome), isOnline)
       IN [ret |-> c.ret,
           alert |-> c.alert \/ (outcome.kind = "response" /\ outcome.status = 403)]

\* logout(), called by api() on a 401 response.
SessionAfter(outcome) ==
  IF outcome.kind = "response" /\ outcome.status = 401 THEN "none" ELSE session
ScreenAfter(outcome) ==
  IF outcome.kind = "response" /\ outcome.status = 401 THEN "login" ELSE screen

\* ------------------------------------------------------------ records
NoOptions == [method |-> Undefined, body |-> Undefined]
NoCall == [done |-> FALSE, endpoint |-> "", options |-> NoOptions, outcome |-> Response(0),
           onLine |-> FALSE, ret |-> "none", present |-> FALSE, before |-> <<>>,
           pass |-> 0, skipQueue |-> FALSE, alert |-> FALSE, session |-> "none"]
NoPass == [done |-> FALSE, snapshot |-> <<>>, sent |-> <<>>, failed |-> {},
           successCount |-> 0, refreshes |-> 0, size |-> 0, before |-> <<>>,
           index |-> 0]
NoIndicator == [cls |-> "", text |-> OnlineText, syncing |-> FALSE,
                btnHidden |-> TRUE, btnDisabled |-> FALSE]
\* lang is the item gymLang of localStorage, which currentLang follows.
NoStore == [raw |-> "list", op |-> "none", raised |-> FALSE, lang |-> "id"]
NoUI == [name |-> "none", done |-> FALSE, ret |-> "none", status |-> "none",
         shown |-> "none", page |-> "dashboard", inFlight |-> FALSE]
NoApplied == [u \in 1..MaxEnqueue |-> 0]
NoAuth == [owner  |-> [u \in 1..MaxEnqueue |-> "-"],
           sentAs |-> [u \in 1..MaxEnqueue |-> "-"],
           login  |-> "none", user |-> "-", calls |-> <<>>]
NoFetch == [method |-> "", url |-> <<>>, mode |-> "", cached |-> FALSE,
            net |-> "", handled |-> FALSE, responded |-> FALSE,
            from |-> "none", result |-> "none"]
NoEvent == [kind |-> "none", queue |-> <<>>, pass |-> <<>>, ind |-> NoIndicator,
            atCall |-> NoIndicator]

Passes == 1..Len(pass)

\* The sequence s without its k-th element.
RemoveAt(s, k) == [j \in 1..(Len(s) - 1) |-> IF j < k THEN s[j] ELSE s[j + 1]]

\* ------------------------------------------------------------ session
\* The users who log in and the token the server issues to each; "token",
\* the session of Init, is a session of user A.
Users == {"A", "B"}
tokenOf(user) == IF user = "A" THEN "token" ELSE "token2"
Tokens == {tokenOf(user) : user \in Users}

\* getToken(): the token of the stored record, '' when there is none.
getToken(sess) == IF sess \in Tokens THEN sess ELSE ""

\* init(): the application shell is shown for a stored record with a token.
hasToken(sess) == getToken(sess) # ""

\* ------------------------------------------------------------ Init
\* The state after DOMContentLoaded: init() has shown the login overlay or
\* the application shell, updateSyncIndicator() and applyTranslations() have
\* run.
InitPage ==
  /\ queue = <<>>
  /\ onLine \in BOOLEAN
  /\ now = 1
  /\ session \in {"none", "token"}
  /\ screen = IF hasToken(session) THEN "app" ELSE "login"
  /\ appShown = hasToken(session)
  /\ ind = applyTranslations(updateSyncIndicator(NoIndicator, <<>>, onLine),
                             NoStore.lang)
  /\ pass = <<>>
  /\ nextUid = 1
  /\ succeeded = {}
  /\ last = NoCall
  /\ lastDone = NoPass
  /\ lastEvent = NoEvent
  /\ failedEver = {}
  /\ store = NoStore
  /\ ui = NoUI
  /\ applied = NoApplied
  /\ auth = NoAuth

Init ==
  /\ InitPage
  /\ sw = NoFetch

\* A promise has just settled, or a listener is about to return: the
\* continuation runs before any other event is handled.
Resuming == last.done \/ lastDone.done \/ lastEvent.kind # "none"

\* ------------------------------------------------- UI actions calling api()
\* History: an entry for the same endpoint and the same options is pending.
Pending(q, endpoint, options) ==
  \E k \in 1..Len(q) : q[k].endpoint = endpoint /\ q[k].options = options

\* The pairs of readings (Date.now() of line 397, new Date() of line 400) a
\* new entry may be created with; now is the latest reading made.  Every
\* entry is created within one millisecond, later than the entry before it;
\* the program writes id and timestamp and never reads them.
ClockReadings == {<<now + 1, now + 1>>}

\* The same for a clock that does not go back but may return the same
\* millisecond for two entries, or tick before and between the two readings
\* of an entry.
CoarseClockReadings == {<<now, now>>, <<now + 1, now + 2>>}

\* The list a suspended pass iterates, after an enqueue has changed the
\* persisted list from before to after: getOfflineQueue() parses a fresh
\* list on every call, so the list of the pass is not the one pushed to.
sharedList(snapshot, before, after) ==
  snapshot \o SubSeq(after, Len(before) + 1, Len(after))
parsedCopy(snapshot, before, after) == snapshot

\* api(endpoint, options, skipQueue) from the settling of its fetch to its
\* return or throw; p is the pass that awaits the call, 0 for a UI action,
\* and T the pairs of readings the clock may give.
apiSettlesAt(endpoint, options, skipQueue, outcome, p, T) ==
  \E t \in T :
  LET res == apiResult(options, skipQueue, outcome, onLine)
      q2  == IF res.ret = "queued"
             THEN addToOfflineQueue(queue, endpoint, options, t[1], t[2])
             ELSE queue
  IN /\ q2 # queue => nextUid <= MaxEnqueue
     /\ now' = IF q2 # queue THEN t[2] ELSE now
     /\ queue' = q2
     /\ ind' = IF q2 # queue THEN updateSyncIndicator(ind, q2, onLine) ELSE ind
     /\ nextUid' = IF q2 # queue THEN nextUid + 1 ELSE nextUid
     /\ pass' = IF q2 = queue THEN pass
                ELSE [k \in Passes |->
                       [pass[k] EXCEPT !.queue = parsedCopy(@, queue, q2)]]
     /\ session' = SessionAfter(outcome)
     /\ screen' = ScreenAfter(outcome)
     /\ last' = [done |-> TRUE, endpoint |-> endpoint, options |-> options,
                 outcome |-> outcome, onLine |-> onLine, ret |-> res.ret,
                 present |-> Pending(queue, endpoint, options), before |-> queue,
                 pass |-> p, skipQueue |-> skipQueue, alert |-> res.alert,
                 session |-> session]

apiSettles(endpoint, options, skipQueue, outcome, p) ==
  apiSettlesAt(endpoint, options, skipQueue, outcome, p, ClockReadings)

\* api(r.endpoint, r.options) called by a UI action of the application shell
\* (member save or delete, a list load) returns or throws: its fetch has
\* settled with the outcome.
ApiCall(r, outcome) ==
  /\ ~Resuming
  /\ appShown
  /\ apiSettles(r.endpoint, r.options, FALSE, outcome, 0)
  /\ UNCHANGED <<onLine, appShown, succeeded, lastDone, lastEvent>>
  /\ UNCHANGED <<failedEver, store, ui, applied, auth, sw>>

\* ------------------------------------------------------ syncOfflineData()
\* The guard of line 407: the pass goes on only for a non-empty queue while
\* online.
drainStarts(q, isOnline) == ~(Len(q) = 0 \/ ~isOnline)

\* for (const item of queue): the item of the k-th iteration.
itemAtReversed(q, k) == q[Len(q) + 1 - k]
itemAt(q, k) == q[k]

\* The catch of the loop body: remaining.push(item).
pushRemainingFront(remaining, item) == <<item>> \o remaining
pushRemainingStamped(remaining, item) ==
  Append(remaining, [item EXCEPT !.timestamp = toISOString(now + 1)])
pushRemaining(remaining, item) == Append(remaining, item)

\* Whether the loop goes on after the k-th iteration; ok tells whether the
\* replay of that iteration succeeded.
loopContinuesUntilFailure(q, k, ok) == ok /\ k < Len(q)
loopContinues(q, k, ok) == k < Len(q)

\* for-of: the index of the iteration after the k-th, whose replay
\* succeeded or not (ok).
nextIndex(k, ok) == k + 1

\* syncOfflineData() from its call to its first await, with the indicator i0
\* and the connectivity isOnline of the moment of the call.
syncOfflineDataLateGuard(i0, isOnline) ==
  LET q == getOfflineQueue
  IN IF ~drainStarts(q, isOnline)
     THEN /\ ind' = [i0 EXCEPT !.syncing = TRUE, !.text = SyncingText, !.btnDisabled = TRUE]
          /\ pass' = pass
     ELSE /\ Len(pass) < MaxPasses
          /\ ind' = [i0 EXCEPT !.syncing = TRUE, !.text = SyncingText, !.btnDisabled = TRUE]
          /\ pass' = Append(pass,
                        [queue |-> q, i |-> 1, remaining |-> <<>>, successCount |-> 0,
                         sent |-> <<itemAt(q, 1).uid>>, failed |-> {},
                         size |-> Len(q)])
syncOfflineData(i0, isOnline) ==
  LET q == getOfflineQueue
  IN IF ~drainStarts(q, isOnline)
     THEN /\ ind' = i0
          /\ pass' = pass
     ELSE /\ Len(pass) < MaxPasses
          /\ ind' = [i0 EXCEPT !.syncing = TRUE, !.text = SyncingText, !.btnDisabled = TRUE]
          /\ pass' = Append(pass,
                        [queue |-> q, i |-> 1, remaining |-> <<>>, successCount |-> 0,
                         sent |-> <<itemAt(q, 1).uid>>, failed |-> {},
                         size |-> Len(q)])

\* window 'online' listener: updateSyncIndicator(); syncOfflineData().
OnlineEventDrainFirst ==
  /\ ~Resuming
  /\ ~onLine
  /\ onLine' = TRUE
  /\ Len(queue) > 0 => Len(pass) < MaxPasses
  /\ pass' = IF Len(queue) > 0
             THEN Append(pass, [queue |-> queue, i |-> 1, remaining |-> <<>>,
                                successCount |-> 0, sent |-> <<itemAt(queue, 1).uid>>,
                                failed |-> {}, size |-> Len(queue)])
             ELSE pass
  /\ ind' = updateSyncIndicator(
              IF Len(queue) > 0
              THEN [ind EXCEPT !.syncing = TRUE, !.text = SyncingText, !.btnDisabled = TRUE]
              ELSE ind, queue, TRUE)
  /\ lastEvent' = [kind |-> "online", queue |-> queue, pass |-> pass, ind |-> ind,
                   atCall |-> ind]
  /\ UNCHANGED <<last, lastDone>>
  /\ UNCHANGED <<queue, now, session, screen, appShown, nextUid, succeeded>>
  /\ UNCHANGED <<failedEver, store, ui, applied, auth, sw>>
OnlineEvent ==
  /\ ~Resuming
  /\ ~onLine
  /\ onLine' = TRUE
  /\ syncOfflineData(updateSyncIndicator(ind, queue, TRUE), TRUE)
  /\ lastEvent' = [kind |-> "online", queue |-> queue, pass |-> pass, ind |-> ind,
                   atCall |-> updateSyncIndicator(ind, queue, TRUE)]
  /\ UNCHANGED <<last, lastDone>>
  /\ UNCHANGED <<queue, now, session, screen, appShown, nextUid, succeeded>>
  /\ UNCHANGED <<failedEver, store, ui, applied, auth, sw>>

\* window 'offline' listener: updateSyncIndicator().
OfflineEventNoIndicator ==
  /\ ~Resuming
  /\ onLine
  /\ onLine' = FALSE
  /\ ind' = ind
  /\ lastEvent' = [kind |-> "offline", queue |-> queue, pass |-> pass, ind |-> ind,
                   atCall |-> NoIndicator]
  /\ UNCHANGED <<last, lastDone>>
  /\ UNCHANGED <<queue, now, session, screen, appShown, pass, nextUid, succeeded>>
  /\ UNCHANGED <<failedEver, store, ui, applied, auth, sw>>
OfflineEvent ==
  /\ ~Resuming
  /\ onLine
  /\ onLine' = FALSE
  /\ ind' = updateSyncIndicator(ind, queue, FALSE)
  /\ lastEvent' = [kind |-> "offline", queue |-> queue, pass |-> pass, ind |-> ind,
                   atCall |-> NoIndicator]
  /\ UNCHANGED <<last, lastDone>>
  /\ UNCHANGED <<queue, now, session, screen, appShown, pass, nextUid, succeeded>>
  /\ UNCHANGED <<failedEver, store, ui, applied, auth, sw>>

\* Click on #btnSyncNow, which a hidden or disabled button does not receive.
SyncNowClick ==
  /\ ~Resuming
  /\ screen = "app"
  /\ ~ind.btnHidden /\ ~ind.btnDisabled
  /\ syncOfflineData(ind, onLine)
  /\ lastEvent' = [kind |-> "click", queue |-> queue, pass |-> pass, ind |-> ind,
                   atCall |-> ind]
  /\ UNCHANGED <<last, lastDone>>
  /\ UNCHANGED <<queue, onLine, now, session, screen, appShown, nextUid, succeeded>>
  /\ UNCHANGED <<failedEver, store, ui, applied, auth, sw>>

\* The listener that has just run returns.
ListenerReturns ==
  /\ lastEvent.kind # "none"
  /\ lastEvent' = NoEvent
  /\ UNCHANGED <<queue, onLine, now, session, screen, ind, appShown, pass,
                 nextUid, succeeded, last, lastDone>>
  /\ UNCHANGED <<failedEver, store, ui, applied, auth, sw>>

\* The replay the pass p is waiting for, api(item.endpoint, item.options,
\* true), returns or throws: its fetch has settled with the outcome.
ReplaySettles(p, outcome) ==
  LET item == itemAt(pass[p].queue, pass[p].i)
  IN /\ p \in Passes
     /\ ~Resuming
     /\ apiSettles(item.endpoint, item.options, TRUE, outcome, p)
     /\ UNCHANGED <<onLine, appShown, succeeded, lastDone, lastEvent>>
     /\ UNCHANGED <<failedEver, store, ui, applied, auth, sw>>

\* The number of times the pass calls navigate() for the active view, given
\* its successCount and whether a navigation item is active.
refreshCountNone(successCount, activePage) == 0
refreshCountPerSuccess(successCount, activePage) ==
  IF activePage THEN successCount ELSE 0
refreshCount(successCount, activePage) ==
  IF successCount > 0 /\ activePage THEN 1 ELSE 0

\* indicator.classList.remove('syncing') at the end of a pass.
keepSyncing(i) == i
clearSyncing(i) == [i EXCEPT !.syncing = FALSE]

\* History: the entries that are neither in the list q nor in the list of
\* a pass of ps are gone, and what auth keeps of them is forgotten, as is
\* the token of every replay that is no longer awaited.
forgetGone(q, ps) ==
  LET kept    == {q[k].uid : k \in 1..Len(q)}
                   \cup UNION {{ps[j].queue[k].uid : k \in 1..Len(ps[j].queue)} :
                                 j \in 1..Len(ps)}
      awaited == {ps[j].queue[ps[j].i].uid : j \in 1..Len(ps)}
  IN [auth EXCEPT
        !.owner  = [u \in DOMAIN auth.owner |->
                      IF u \in kept THEN auth.owner[u] ELSE "-"],
        !.sentAs = [u \in DOMAIN auth.sentAs |->
                      IF u \in awaited THEN auth.sentAs[u] ELSE "-"]]

\* The pass that awaited the replay resumes with the result or the error:
\* its loop runs up to its next await or to the end of the pass.  track
\* tells whether the histories succeeded and failedEver are kept, tokens
\* whether auth.sentAs is: the api() call of the next iteration reads the
\* token of the session of this moment (line 325).
passResumes(track, tokens) ==
  LET p    == last.pass
      ps   == pass[p]
      item == itemAt(ps.queue, ps.i)
      ok   == last.ret # "throw"
      rem  == IF ok THEN ps.remaining ELSE pushRemaining(ps.remaining, item)
      cnt  == IF ok THEN ps.successCount + 1 ELSE ps.successCount
      fld  == IF ok THEN ps.failed ELSE ps.failed \cup {item.uid}
  IN /\ last.done /\ last.pass # 0
     /\ last' = NoCall
     /\ succeeded' = IF track /\ ok THEN succeeded \cup {item.uid} ELSE succeeded
     /\ IF loopContinues(ps.queue, ps.i, ok)
        THEN /\ pass' = [pass EXCEPT ![p] =
                          [ps EXCEPT !.i = nextIndex(ps.i, ok), !.remaining = rem,
                                     !.successCount = cnt, !.failed = fld,
                                     !.sent = Append(ps.sent,
                                                itemAt(ps.queue, nextIndex(ps.i, ok)).uid)]]
             /\ UNCHANGED <<queue, ind, lastDone>>
        ELSE \* saveOfflineQueue(remaining); the refresh; the indicator
             /\ queue' = rem
             /\ ind' = updateSyncIndicator(
                         clearSyncing(updateSyncIndicator(ind, rem, onLine)),
                         rem, onLine)
             /\ pass' = RemoveAt(pass, p)
             /\ lastDone' = [done |-> TRUE, snapshot |-> ps.queue, sent |-> ps.sent,
                             failed |-> fld, successCount |-> cnt,
                             refreshes |-> refreshCount(cnt, appShown),
                             size |-> ps.size, before |-> queue, index |-> p]
     /\ failedEver' = IF track /\ ~ok THEN failedEver \cup {item.uid} ELSE failedEver
     /\ UNCHANGED <<onLine, now, session, screen, appShown, nextUid, lastEvent>>
     /\ auth' = IF tokens /\ loopContinues(ps.queue, ps.i, ok)
                THEN [auth EXCEPT !.sentAs[itemAt(ps.queue, nextIndex(ps.i, ok)).uid]
                                     = session]
                ELSE IF tokens
                THEN forgetGone(rem, RemoveAt(pass, p))
                ELSE auth
     /\ UNCHANGED <<store, ui, applied, sw>>

PassResumes == passResumes(FALSE, FALSE)

\* The UI action that awaited api() resumes with the result or the error.
CallerResumes ==
  /\ last.done /\ last.pass = 0
  /\ last' = NoCall
  /\ UNCHANGED <<queue, onLine, now, session, screen, ind, appShown, pass,
                 nextUid, succeeded, lastDone, lastEvent>>
  /\ UNCHANGED <<failedEver, store, ui, applied, auth, sw>>

\* The promise of a syncOfflineData() that ran to its end resolves.
DrainReturns ==
  /\ lastDone.done
  /\ lastDone' = NoPass
  /\ UNCHANGED <<queue, onLine, now, session, screen, ind, appShown, pass,
                 nextUid, succeeded, last, lastEvent>>
  /\ UNCHANGED <<failedEver, store, ui, applied, auth, sw>>

\* ------------------------------------------------------------ Next
Next ==
  \/ \E r \in UIRequests, o \in Outcomes : ApiCall(r, o)
  \/ CallerResumes
  \/ DrainReturns
  \/ OnlineEvent
  \/ OfflineEvent
  \/ SyncNowClick
  \/ ListenerReturns
  \/ \E p \in Passes, o \in Outcomes : ReplaySettles(p, o)
  \/ PassResumes

Spec == Init /\ [][Next]_vars

\* ------------------------------------------------------------ fairness
\* The outcomes that decide how a pass goes on: a call of a UI action is
\* queued or not, a replay succeeds or is aborted by its timer.
EnqueueOutcomes == {Response(200), FailedToFetch}
ReplayOutcomes  == {Response(200), AbortError}

NextLive ==
  \/ \E r \in UIRequests, o \in EnqueueOutcomes : ApiCall(r, o)
  \/ CallerResumes
  \/ DrainReturns
  \/ OnlineEvent
  \/ OfflineEvent
  \/ SyncNowClick
  \/ ListenerReturns
  \/ \E p \in Passes, o \in ReplayOutcomes : ReplaySettles(p, o)
  \/ PassResumes

\* What the event loop guarantees: a continuation that is ready runs and a
\* listener returns.  That a replay in flight settles is not guaranteed by
\* the program: the 60 s timer aborts a fetch that has not answered, but it
\* is cleared once the response headers are in (line 337) and the body is
\* read after that (lines 348 and 351), so a replay whose body never arrives
\* never settles and its pass stays suspended at line 421.
Fairness ==
  /\ WF_vars(CallerResumes)
  /\ WF_vars(DrainReturns)
  /\ WF_vars(ListenerReturns)
  /\ WF_vars(PassResumes)

\* The network lets every replay in flight complete: api() returns or
\* throws for it, if only by the abort of its timer.
RepliesComplete ==
  \A p \in 1..MaxPasses : SF_vars(\E o \in ReplayOutcomes : ReplaySettles(p, o))

LiveSpec == Init /\ [][NextLive]_vars /\ Fairness

\* ------------------------- the same with the results of replays recorded
TrackedPassResumes == passResumes(TRUE, FALSE)

NextRetry ==
  \/ \E r \in UIRequests, o \in Outcomes : ApiCall(r, o)
  \/ CallerResumes
  \/ DrainReturns
  \/ OnlineEvent
  \/ OfflineEvent
  \/ SyncNowClick
  \/ ListenerReturns
  \/ \E p \in Passes, o \in Outcomes : ReplaySettles(p, o)
  \/ TrackedPassResumes

RetrySpec == Init /\ [][NextRetry]_vars

\* The calls of the UI that api() may queue.
MutatingRequests == {r \in UIRequests : isMutation(r.options)}

\* ------------------------------------- the persisted record, well-formed or not
\* What localStorage['gf_offline_queue'] may hold when the program reads it:
\* a list written by the program ("list"), nothing ("absent"), text that is
\* not JSON ("unparsable"), JSON for a falsy value such as null ("null"), or
\* JSON for a truthy value that is not a list: a value without a length such
\* as {}, 5 or true ("object"), the string "x" ("string"), or the object
\* {"length":2} ("lengthy").
RawRecords == {"list", "absent", "unparsable", "null", "object", "string", "lengthy"}

\* What for-of yields for a character of a string: the properties the pass
\* reads of it, endpoint and options, are undefined; it was not created by
\* addToOfflineQueue (uid 0).
charItem ==
  [id |-> 0, endpoint |-> Undefined, options |-> NoOptions,
   timestamp |-> toISOString(0), uid |-> 0,
   orig |-> [id |-> 0, endpoint |-> Undefined, options |-> NoOptions,
             timestamp |-> toISOString(0)]]

\* getOfflineQueue() on such a record: JSON.parse(...) || [], and [] when
\* JSON.parse throws.  A truthy value is returned as it is, list or not:
\* isList tells whether it has the methods of a list (some, push), length
\* is its length property (-1 for undefined), iterable whether for-of
\* accepts it and items what for-of yields.
getOfflineQueueFrom(st, q) ==
  [isList   |-> st.raw \notin {"object", "string", "lengthy"},
   list     |-> IF st.raw = "list" THEN q ELSE <<>>,
   length   |-> CASE st.raw = "list"    -> Len(q)
                  [] st.raw = "object"  -> -1
                  [] st.raw = "string"  -> 1
                  [] st.raw = "lengthy" -> 2
                  [] OTHER              -> 0,
   iterable |-> st.raw \notin {"object", "lengthy"},
   items    |-> IF st.raw = "list" THEN q
                ELSE IF st.raw = "string" THEN <<charItem>> ELSE <<>>]

\* updateSyncIndicator() for the value v getOfflineQueue() returned: an
\* undefined length is neither > 0 nor === 0.
updateSyncIndicatorFrom(i, v, isOnline) ==
  IF isOnline
  THEN [i EXCEPT !.cls = "online",
                 !.text = IF v.length > 0 THEN PendingText(v.length) ELSE OnlineText,
                 !.btnHidden = (v.length = 0),
                 !.btnDisabled = FALSE]
  ELSE [i EXCEPT !.cls = "offline", !.text = OfflineText, !.btnHidden = TRUE]

\* syncOfflineData() up to its first await for the value v, with the
\* indicator i0: the test of line 407 returns for a length of 0 or while
\* offline; else the indicator is set to syncing and for-of raises for a
\* value that is not iterable, or the replay of the first item is called.
syncOfflineDataFrom(v, i0, isOnline, op) ==
  IF v.length = 0 \/ ~isOnline
  THEN /\ ind' = i0
       /\ pass' = pass
       /\ store' = [store EXCEPT !.op = op, !.raised = FALSE]
  ELSE /\ ind' = [i0 EXCEPT !.syncing = TRUE, !.text = SyncingText,
                            !.btnDisabled = TRUE]
       /\ IF v.iterable
          THEN /\ Len(pass) < MaxPasses
               /\ pass' = Append(pass,
                            [queue |-> v.items, i |-> 1, remaining |-> <<>>,
                             successCount |-> 0,
                             sent |-> <<itemAt(v.items, 1).uid>>, failed |-> {},
                             size |-> Len(v.items)])
               /\ store' = [store EXCEPT !.op = op, !.raised = FALSE]
          ELSE /\ pass' = pass
               /\ store' = [store EXCEPT !.op = op, !.raised = TRUE]

InitStore ==
  /\ Init
  /\ appShown

\* The record is replaced from outside the program (another version of the
\* application, the developer tools) while no pass is running; what the
\* record held is gone.
StoreCorrupted(raw) ==
  /\ store.raw = "list"
  /\ Len(pass) = 0
  /\ raw # "list"
  /\ store' = [store EXCEPT !.raw = raw, !.op = "none", !.raised = FALSE]
  /\ queue' = <<>>
  /\ UNCHANGED <<onLine, now, session, screen, ind, appShown, pass,
                 nextUid, succeeded, last, lastDone, lastEvent, failedEver, ui, applied, auth, sw>>

\* addToOfflineQueue(r.endpoint, r.options), called by the catch block of
\* api(): queue.some raises for a value that is not a list.
StoreEnqueue(r) ==
  \E t \in ClockReadings :
  LET v  == getOfflineQueueFrom(store, queue)
      q2 == addToOfflineQueue(v.list, r.endpoint, r.options, t[1], t[2])
  IN /\ nextUid <= MaxEnqueue
     /\ IF ~v.isList
        THEN /\ store' = [store EXCEPT !.op = "enqueue", !.raised = TRUE]
             /\ UNCHANGED <<queue, ind, now, nextUid>>
        ELSE IF q2 = v.list
        THEN /\ store' = [store EXCEPT !.op = "enqueue", !.raised = FALSE]
             /\ UNCHANGED <<queue, ind, now, nextUid>>
        ELSE /\ store' = [store EXCEPT !.raw = "list", !.op = "enqueue",
                                        !.raised = FALSE]
             /\ queue' = q2
             /\ ind' = updateSyncIndicator(ind, q2, onLine)
             /\ now' = t[2]
             /\ nextUid' = nextUid + 1
     /\ UNCHANGED <<onLine, session, screen, appShown, pass, succeeded, last,
                    lastDone, lastEvent, failedEver, ui, applied, auth, sw>>

\* Click on 'sync now', which a hidden or disabled button does not receive:
\* syncOfflineData() up to its first await.
StoreDrain ==
  /\ ~ind.btnHidden /\ ~ind.btnDisabled
  /\ syncOfflineDataFrom(getOfflineQueueFrom(store, queue), ind, onLine, "drain")
  /\ UNCHANGED <<queue, onLine, now, session, screen, appShown, nextUid,
                 succeeded, last, lastDone, lastEvent, failedEver, ui, applied, auth, sw>>

\* The page is reloaded: the passes and the UI actions in flight are gone,
\* the record and the session are kept and the current page is 'dashboard'
\* again; the DOMContentLoaded handler runs init(), which shows the shell
\* (showApp(), with navigate('dashboard')) for a session with a token and
\* the login overlay otherwise, updateSyncIndicator() on the record and
\* then applyTranslations().
Reload ==
  /\ pass' = <<>>
  /\ screen' = IF hasToken(session) THEN "app" ELSE "login"
  /\ appShown' = hasToken(session)
  /\ ui' = NoUI
  /\ auth' = [auth EXCEPT !.calls = <<>>, !.login = "none", !.user = "-"]
  /\ ind' = applyTranslations(
              updateSyncIndicatorFrom(NoIndicator, getOfflineQueueFrom(store, queue),
                                      onLine),
              store.lang)
  /\ store' = [store EXCEPT !.op = "reload", !.raised = FALSE]
  /\ UNCHANGED <<queue, onLine, now, session, nextUid,
                 succeeded, last, lastDone, lastEvent, failedEver, applied, sw>>

\* window 'online' listener on the record: updateSyncIndicator(), then
\* syncOfflineData() up to its first await.
StoreOnline ==
  LET v == getOfflineQueueFrom(store, queue)
  IN /\ ~onLine
     /\ onLine' = TRUE
     /\ syncOfflineDataFrom(v, updateSyncIndicatorFrom(ind, v, TRUE), TRUE, "online")
     /\ UNCHANGED <<queue, now, session, screen, appShown, nextUid,
                    succeeded, last, lastDone, lastEvent, failedEver, ui, applied, auth, sw>>

\* window 'offline' listener on the record: updateSyncIndicator().
StoreOffline ==
  /\ onLine
  /\ onLine' = FALSE
  /\ ind' = updateSyncIndicatorFrom(ind, getOfflineQueueFrom(store, queue), FALSE)
  /\ store' = [store EXCEPT !.op = "offline", !.raised = FALSE]
  /\ UNCHANGED <<queue, now, session, screen, appShown, pass, nextUid,
                 succeeded, last, lastDone, lastEvent, failedEver, ui, applied, auth, sw>>

NextStore ==
  \/ \E raw \in RawRecords : StoreCorrupted(raw)
  \/ \E r \in MutatingRequests : StoreEnqueue(r)
  \/ StoreDrain
  \/ Reload
  \/ StoreOnline
  \/ StoreOffline

StoreSpec == InitStore /\ [][NextStore]_vars

\* ------------------------------------------------- what the UI actions show
\* The UI actions that make a mutating call, with the call they make.
UIActions == {"scan", "checkIn", "saveMember", "deleteMember"}

\* The pages of the router.
pages == {"dashboard", "members", "finance", "stock", "scan"}

requestOf(name) ==
  CASE name = "scan"         -> apiPost("/members/123/checkin", "empty")
    [] name = "checkIn"      -> apiPost("/members/123/checkin", "empty")
    [] name = "saveMember"   -> apiPut("/members/123", "nameA")
    [] name = "deleteMember" -> apiDelete("/members/123")

\* result.status of a parsed success body of the check-in endpoint.
BodyStatuses == {"checked_in", "denied"}

\* What the UI action shows once api() has returned (ret "ok" or "queued",
\* status being result.status) or thrown (ret "throw"): the welcome panel,
\* the 'Access Denied' panel or the 'Check-in Failed' panel of the scan
\* page, an alert, or the list rendered again without a message.
presents(name, ret, status, page) ==
  IF name = "scan"
  THEN IF ret = "throw" THEN "failed-panel"
       ELSE IF status = "checked_in" THEN "welcome-panel"
       ELSE "denied-panel"
  ELSE IF ret = "throw" THEN "alert"
  ELSE IF name = "checkIn" /\ page # "members" THEN "none"
  ELSE "list"

\* navigate(page): the page becomes the current page.  The lists it renders
\* are read with GET calls, which are never queued and are not followed
\* here.
navigate(page) ==
  /\ ~Resuming
  /\ appShown
  /\ ui' = [ui EXCEPT !.page = IF page \in pages THEN page ELSE "dashboard"]
  /\ UNCHANGED <<queue, onLine, now, session, screen, ind, appShown, pass,
                 nextUid, succeeded, last, lastDone, lastEvent, failedEver, store,
                 applied, auth, sw>>

\* The UI action name calls api(): the request is in flight.  One action is
\* followed at a time.
UIAction(name) ==
  /\ ~Resuming
  /\ appShown
  /\ ~ui.inFlight
  /\ ui' = [ui EXCEPT !.name = name, !.done = FALSE, !.ret = "none",
                      !.status = "none", !.shown = "none", !.inFlight = TRUE]
  /\ UNCHANGED <<queue, onLine, now, session, screen, ind, appShown, pass,
                 nextUid, succeeded, last, lastDone, lastEvent, failedEver, store,
                 applied, auth, sw>>

\* The fetch of the call in flight settles with the outcome; a success body
\* has the given status.
UISettles(outcome, status) ==
  LET r == requestOf(ui.name)
  IN /\ ~Resuming
     /\ ui.inFlight
     /\ outcome # Response(200) => status = "none"
     /\ outcome = Response(200) => status \in BodyStatuses
     /\ apiSettles(r.endpoint, r.options, FALSE, outcome, 0)
     /\ ui' = [ui EXCEPT !.status = status, !.inFlight = FALSE]
     /\ UNCHANGED <<onLine, appShown, succeeded, lastDone, lastEvent,
                    failedEver, store, applied, auth, sw>>

\* The UI action resumes after its await and shows the result on the page
\* that is the current one by then.
UIResumes ==
  LET status == IF last.ret = "queued" THEN "queued" ELSE ui.status
  IN /\ last.done /\ last.pass = 0
     /\ ui.name # "none" /\ ~ui.done /\ ~ui.inFlight
     /\ ui' = [ui EXCEPT !.done = TRUE, !.ret = last.ret, !.status = status,
                         !.shown = presents(ui.name, last.ret, status, ui.page)]
     /\ last' = NoCall
     /\ UNCHANGED <<queue, onLine, now, session, screen, ind, appShown, pass,
                    nextUid, succeeded, lastDone, lastEvent, failedEver, store, applied, auth, sw>>

NextUI ==
  \/ \E name \in UIActions : UIAction(name)
  \/ \E o \in Outcomes, st \in BodyStatuses \cup {"none"} : UISettles(o, st)
  \/ UIResumes
  \/ \E page \in pages : navigate(page)
  \/ OfflineEvent
  \/ ListenerReturns

UISpec == Init /\ [][NextUI]_vars

\* ------------------------------------------------------ login and logout
\* doLogin(username, password): the call it awaits.
loginRequest(user) ==
  apiPost("/login", IF user = "A" THEN "loginA" ELSE "loginB")

\* sessionStorage.setItem(SESSION_KEY, JSON.stringify(data)) of doLogin,
\* data being what api() returned: the body of the success response, which
\* holds the token of the user, or the queued sentinel, which holds none.
storedSession(ret, user) == IF ret = "ok" THEN tokenOf(user) ELSE "queued"

AuthOutcomes == {Response(200), Response(401), FailedToFetch}

\* The mutating call the UI actions of the shell make.
AuthRequests == {apiPut("/members/123", "nameA")}

\* History: the token the call that created the entry of this step, if
\* any, was made with; api() reads it when it is called (line 325), before
\* its fetch.
ownerAfter(token) ==
  IF queue' # queue /\ Len(queue') > 0
  THEN [auth.owner EXCEPT ![queue'[Len(queue')].uid] = token]
  ELSE auth.owner

\* The login form is submitted for the user: doLogin calls apiPost('/login',
\* {username, password}), whose fetch settles with the outcome.  The login
\* overlay is shown by logout() or without a token only, so the token of
\* the call is the one of the session of the moment it settles.
LoginSubmit(user, outcome) ==
  LET r == loginRequest(user)
  IN /\ ~Resuming
     /\ screen = "login"
     /\ apiSettles(r.endpoint, r.options, FALSE, outcome, 0)
     /\ auth' = [auth EXCEPT !.login = "pending", !.user = user,
                             !.owner = ownerAfter(getToken(session))]
     /\ UNCHANGED <<onLine, appShown, succeeded, lastDone, lastEvent>>
     /\ UNCHANGED <<failedEver, store, ui, applied, sw>>

\* doLogin and the submit handler resume: the result is stored as the
\* session and showApp() runs, which shows the shell and ends with
\* navigate('dashboard'), or the error of the form is shown.
LoginResumes ==
  /\ last.done /\ last.pass = 0
  /\ auth.login = "pending"
  /\ last' = NoCall
  /\ IF last.ret = "throw"
     THEN /\ auth' = [auth EXCEPT !.login = "error", !.user = "-"]
          /\ UNCHANGED <<session, screen, appShown, ui>>
     ELSE /\ session' = storedSession(last.ret, auth.user)
          /\ screen' = "app"
          /\ appShown' = TRUE
          /\ ui' = [ui EXCEPT !.page = "dashboard"]
          /\ auth' = [auth EXCEPT !.login = "none", !.user = "-"]
  /\ UNCHANGED <<queue, onLine, now, ind, pass, nextUid, succeeded, lastDone,
                 lastEvent, failedEver, store, applied, sw>>

\* Click on #btnLogout of the application shell: logout().
LogoutClick ==
  /\ ~Resuming
  /\ screen = "app"
  /\ session' = "none"
  /\ screen' = "login"
  /\ auth' = [auth EXCEPT !.login = "none"]
  /\ UNCHANGED <<queue, onLine, now, ind, appShown, pass, nextUid, succeeded,
                 last, lastDone, lastEvent, failedEver, store, ui, applied, sw>>

\* A UI action of the shown application shell calls api(r.endpoint,
\* r.options): the token is read (lines 324-326) and the fetch is sent.
AuthApiCall(r) ==
  /\ ~Resuming
  /\ screen = "app"
  /\ Len(auth.calls) < MaxInFlight
  /\ auth' = [auth EXCEPT !.calls = Append(@, [req |-> r, token |-> getToken(session)])]
  /\ UNCHANGED <<queue, onLine, now, session, screen, ind, appShown, pass,
                 nextUid, succeeded, last, lastDone, lastEvent>>
  /\ UNCHANGED <<failedEver, store, ui, applied, sw>>

\* The fetch of the k-th call in flight settles with the outcome, whatever
\* the screen and the session have become since the call.
AuthApiSettles(k, outcome) ==
  /\ ~Resuming
  /\ k \in 1..Len(auth.calls)
  /\ apiSettles(auth.calls[k].req.endpoint, auth.calls[k].req.options, FALSE, outcome, 0)
  /\ auth' = [auth EXCEPT !.owner = ownerAfter(auth.calls[k].token),
                          !.calls = RemoveAt(@, k)]
  /\ UNCHANGED <<onLine, appShown, succeeded, lastDone, lastEvent>>
  /\ UNCHANGED <<failedEver, store, ui, applied, sw>>

\* The UI action that awaited api() resumes.
AuthCallerResumes ==
  /\ auth.login # "pending"
  /\ CallerResumes

\* The listener that has just run returns; the api() call of the pass it
\* has started, if any, has read the token of the session (line 325).
AuthListenerReturns ==
  /\ lastEvent.kind # "none"
  /\ lastEvent' = NoEvent
  /\ auth' = IF Len(pass) > Len(lastEvent.pass)
             THEN [auth EXCEPT !.sentAs[pass[Len(pass)].sent[1]] = session]
             ELSE auth
  /\ UNCHANGED <<queue, onLine, now, session, screen, ind, appShown, pass,
                 nextUid, succeeded, last, lastDone>>
  /\ UNCHANGED <<failedEver, store, ui, applied, sw>>

AuthPassResumes == passResumes(FALSE, TRUE)

NextAuth ==
  \/ \E user \in Users, o \in AuthOutcomes : LoginSubmit(user, o)
  \/ LoginResumes
  \/ LogoutClick
  \/ \E r \in AuthRequests : AuthApiCall(r)
  \/ \E k \in 1..MaxInFlight, o \in AuthOutcomes : AuthApiSettles(k, o)
  \/ AuthCallerResumes
  \/ DrainReturns
  \/ OnlineEvent
  \/ OfflineEvent
  \/ SyncNowClick
  \/ AuthListenerReturns
  \/ \E p \in Passes, o \in AuthOutcomes : ReplaySettles(p, o)
  \/ AuthPassResumes

AuthSpec == Init /\ [][NextAuth]_vars

\* ------------------------------------------------------ application start
\* The drain passes running when the DOMContentLoaded handler returns: the
\* handler calls init(), updateSyncIndicator() and applyTranslations(), and
\* not syncOfflineData().
startPassesDrain(q, isOnline) ==
  IF drainStarts(q, isOnline)
  THEN <<[queue |-> q, i |-> 1, remaining |-> <<>>, successCount |-> 0,
          sent |-> <<itemAt(q, 1).uid>>, failed |-> {}, size |-> Len(q)]>>
  ELSE <<>>
startPasses(q, isOnline) == <<>>

\* The page is loaded again in its tab, a new document: the passes, the
\* calls and the UI actions that were in flight are gone and the current
\* page is 'dashboard' again (line 522); the persisted queue, the language
\* and the session record are as they were.  init() shows the shell
\* (showApp(), with navigate('dashboard')) for a session with a token and
\* the login overlay otherwise; updateSyncIndicator() and then
\* applyTranslations() run.
DOMContentLoaded ==
  /\ ~Resuming
  /\ ui' = NoUI
  /\ auth' = [auth EXCEPT !.calls = <<>>, !.login = "none", !.user = "-"]
  /\ pass' = startPasses(getOfflineQueue, onLine)
  /\ screen' = IF hasToken(session) THEN "app" ELSE "login"
  /\ appShown' = hasToken(session)
  /\ ind' = applyTranslations(updateSyncIndicator(NoIndicator, getOfflineQueue, onLine),
                              store.lang)
  /\ lastEvent' = [kind |-> "load", queue |-> queue, pass |-> <<>>, ind |-> ind,
                   atCall |-> NoIndicator]
  /\ UNCHANGED <<queue, onLine, now, session, nextUid, succeeded, last, lastDone>>
  /\ UNCHANGED <<failedEver, store, applied, sw>>

\* window.app.setLanguage(lang), from a language button: applyTranslations()
\* runs again, on whatever the indicator shows at that moment.
setLanguage(lang) ==
  /\ ~Resuming
  /\ store' = [store EXCEPT !.lang = lang]
  /\ ind' = applyTranslations(ind, lang)
  /\ lastEvent' = [kind |-> "language", queue |-> queue, pass |-> pass, ind |-> ind,
                   atCall |-> NoIndicator]
  /\ UNCHANGED <<queue, onLine, now, session, screen, appShown, pass, nextUid,
                 succeeded, last, lastDone>>
  /\ UNCHANGED <<failedEver, ui, applied, auth, sw>>

NextStart ==
  \/ \E r \in UIRequests, o \in EnqueueOutcomes : ApiCall(r, o)
  \/ CallerResumes
  \/ DrainReturns
  \/ OnlineEvent
  \/ OfflineEvent
  \/ SyncNowClick
  \/ ListenerReturns
  \/ \E p \in Passes, o \in ReplayOutcomes : ReplaySettles(p, o)
  \/ PassResumes
  \/ DOMContentLoaded
  \/ \E lang \in Languages : setLanguage(lang)
  \/ \E page \in pages : navigate(page)

StartSpec == Init /\ [][NextStart]_vars

\* ------------------------------------------------- the service worker
\* A URL is the sequence of its characters, over the characters of '/api/'.
MaxUrlLen == 6
UrlChars == {"/", "a", "p", "i"}
Seqs(S, n) == UNION {[1..k -> S] : k \in 0..n}
Urls == Seqs(UrlChars, MaxUrlLen)

\* String.prototype.includes: needle occurs in text.
includes(text, needle) ==
  \E k \in 1..(Len(text) - Len(needle) + 1) :
    SubSeq(text, k, k + Len(needle) - 1) = needle

\* API_BASE and the URL api() fetches for an endpoint.
API_BASE == <<"/", "a", "p", "i">>
apiUrl(endpoint) == API_BASE \o endpoint

\* The test of the fetch listener of sw.js: the handler returns without
\* respondWith for a request that is not a GET or whose URL holds '/api/'.
bypassesNonGet(method, url) == method # "GET"
bypasses(method, url) ==
  method # "GET" \/ includes(url, <<"/", "a", "p", "i", "/">>)

\* The fetch listener for a request, cached telling whether caches.match
\* finds it and net whether the network answers ("ok") or fails ("fail"):
\* whether respondWith was called, where the answer came from and what the
\* page observes.
swFetch(method, url, mode, cached, net) ==
  IF bypasses(method, url)
  THEN [responded |-> FALSE, from |-> "network", result |-> net]
  ELSE IF cached
  THEN [responded |-> TRUE, from |-> "cache", result |-> "ok"]
  ELSE IF net = "ok"
  THEN [responded |-> TRUE, from |-> "network", result |-> "ok"]
  ELSE IF mode = "navigate"
  THEN [responded |-> TRUE, from |-> "cache", result |-> "ok"]
  ELSE [responded |-> TRUE, from |-> "none", result |-> "fail"]

FetchEvents ==
  [method : {"GET", "POST", "DELETE"}, url : Urls, mode : {"navigate", "cors"},
   cached : BOOLEAN, net : {"ok", "fail"}, handled : {FALSE},
   responded : {FALSE}, from : {"none"}, result : {"none"}]

InitSw ==
  /\ InitPage
  /\ appShown
  /\ sw \in FetchEvents

\* The service worker handles the fetch event.
SwFetch ==
  LET h == swFetch(sw.method, sw.url, sw.mode, sw.cached, sw.net)
  IN /\ ~sw.handled
     /\ sw' = [sw EXCEPT !.handled = TRUE, !.responded = h.responded,
                         !.from = h.from, !.result = h.result]
     /\ UNCHANGED <<queue, onLine, now, session, screen, ind, appShown, pass,
                    nextUid, succeeded, last, lastDone, lastEvent, failedEver,
                    store, ui, applied, auth>>

NextSw == SwFetch

SwSpec == InitSw /\ [][NextSw]_vars

\* ------------------------------------------ what the server has applied
\* The times the server may apply one user action before the model stops
\* counting.
MaxApplied == 2

\* Whether the server has applied a mutating request whose fetch settled with
\* the outcome: it has for a success response and has not for an error
\* response; when the 60 s timer aborts the call (line 329) or the
\* connection fails, the request may or may not have reached the server and
\* been applied before the client gave up.
ServerEffects(outcome) ==
  IF outcome.kind = "response" THEN {isOk(outcome.status)} ELSE BOOLEAN

AppliedOutcomes == {Response(200), Response(500), AbortError, FailedToFetch}

\* api(r.endpoint, r.options) of a mutating UI action returns or throws,
\* the server having applied the request (srv) or not.
AppliedApiCall(r, outcome, srv) ==
  /\ ~Resuming
  /\ appShown
  /\ srv \in ServerEffects(outcome)
  /\ apiSettles(r.endpoint, r.options, FALSE, outcome, 0)
  /\ applied' = IF queue' # queue /\ srv
                THEN [applied EXCEPT ![nextUid] = 1] ELSE applied
  /\ UNCHANGED <<onLine, appShown, succeeded, lastDone, lastEvent>>
  /\ UNCHANGED <<failedEver, store, ui, auth, sw>>

\* The replay the pass p is waiting for returns or throws, the server having
\* applied the request (srv) or not.
AppliedReplaySettles(p, outcome, srv) ==
  LET item == itemAt(pass[p].queue, pass[p].i)
  IN /\ p \in Passes
     /\ ~Resuming
     /\ srv \in ServerEffects(outcome)
     /\ srv => applied[item.uid] < MaxApplied
     /\ apiSettles(item.endpoint, item.options, TRUE, outcome, p)
     /\ applied' = IF srv THEN [applied EXCEPT ![item.uid] = @ + 1] ELSE applied
     /\ UNCHANGED <<onLine, appShown, succeeded, lastDone, lastEvent>>
     /\ UNCHANGED <<failedEver, store, ui, auth, sw>>

NextApplied ==
  \/ \E r \in MutatingRequests, o \in AppliedOutcomes, srv \in BOOLEAN :
       AppliedApiCall(r, o, srv)
  \/ CallerResumes
  \/ DrainReturns
  \/ OnlineEvent
  \/ OfflineEvent
  \/ SyncNowClick
  \/ ListenerReturns
  \/ \E p \in Passes, o \in AppliedOutcomes, srv \in BOOLEAN :
       AppliedReplaySettles(p, o, srv)
  \/ PassResumes

AppliedSpec == Init /\ [][NextApplied]_vars

\* ------------------------------------------- the same with a coarse clock
\* ApiCall with a clock that may return the same millisecond twice.
CoarseApiCall(r, outcome) ==
  /\ ~Resuming
  /\ appShown
  /\ apiSettlesAt(r.endpoint, r.options, FALSE, outcome, 0, CoarseClockReadings)
  /\ UNCHANGED <<onLine, appShown, succeeded, lastDone, lastEvent>>
  /\ UNCHANGED <<failedEver, store, ui, applied, auth, sw>>

\* The calls whose entries may collide are the mutating calls of the UI
\* actions, failing with 'Failed to fetch'.
NextCoarse ==
  \/ \E r \in MutatingRequests : CoarseApiCall(r, FailedToFetch)
  \/ CallerResumes
  \/ DrainReturns
  \/ OnlineEvent
  \/ OfflineEvent
  \/ SyncNowClick
  \/ ListenerReturns
  \/ \E p \in Passes, o \in ReplayOutcomes : ReplaySettles(p, o)
  \/ PassResumes

CoarseSpec == Init /\ [][NextCoarse]_vars

\* ------------------------------------------------------------ typing
TypeOK ==
  /\ onLine \in BOOLEAN
  /\ now \in 1..(2 * nextUid)
  /\ session \in {"none", "queued"} \cup Tokens
  /\ screen \in {"login", "app"}
  /\ nextUid \in 1..(MaxEnqueue + 1)
  /\ Len(queue) <= MaxEnqueue
  /\ Len(pass) <= MaxPasses
  /\ failedEver \subseteq 1..MaxEnqueue
  /\ store.raw \in RawRecords /\ store.raised \in BOOLEAN
  /\ store.lang \in Languages
  /\ ui.name \in UIActions \cup {"none"} /\ ui.done \in BOOLEAN
  /\ ui.page \in pages /\ ui.inFlight \in BOOLEAN
  /\ \A u \in 1..MaxEnqueue : applied[u] \in 0..MaxApplied
  /\ auth.login \in {"none", "pending", "error"}
  /\ auth.user \in Users \cup {"-"}
  /\ Len(auth.calls) <= MaxInFlight

\* ============================================================ properties
Uids(q) == [k \in 1..Len(q) |-> q[k].uid]
Increasing(u) == \A j, k \in 1..Len(u) : j < k => u[j] < u[k]
Created == 1..(nextUid - 1)
InQueue(u) == \E k \in 1..Len(queue) : queue[k].uid = u
ConnectivityFailure(c) ==
  /\ c.outcome.kind = "reject"
  /\ \/ c.outcome.name = "AbortError"
     \/ ~c.onLine
     \/ c.outcome.message = "Failed to fetch"
ServerRejection(c) ==
  c.outcome.kind = "response" /\ ~isOk(c.outcome.status)

\* C1 -- FIFO replay: a drain pass calls api() for the entries of its
\* snapshot in enqueue order (increasing creation order), and one at a time:
\* the outcome of every entry it has sent but the last one is known before
\* the next entry is sent.
C1_FIFOReplay ==
  /\ \A p \in Passes :
       LET ps == pass[p]
       IN /\ Increasing(ps.sent)
          /\ ps.sent = SubSeq(Uids(ps.queue), 1, Len(ps.sent))
          /\ Len(ps.sent) = Len(ps.remaining) + ps.successCount + 1
  /\ lastDone.done =>
       /\ Increasing(lastDone.sent)
       /\ lastDone.sent = Uids(lastDone.snapshot)

\* A pass has replayed two entries, the older one first.
C1_Witness ==
  /\ lastDone.done
  /\ Len(lastDone.sent) = 2
  /\ lastDone.sent[1] < lastDone.sent[2]

\* C2 -- at most one drain pass is active at any time.
C2_SingleDrain == Len(pass) <= 1

\* C3 -- no double replay: no entry has been sent by two passes that are
\* active at the same time, and no pass is waiting for the replay of an
\* entry whose replay has already succeeded.
C3_NoDoubleReplay ==
  /\ \A p, o \in Passes :
       p # o => \A j \in 1..Len(pass[p].sent), k \in 1..Len(pass[o].sent) :
                  pass[p].sent[j] # pass[o].sent[k]
  /\ \A p \in Passes : pass[p].sent[Len(pass[p].sent)] \notin succeeded

\* C4 -- no queued entry is lost: every entry ever created is in the
\* persisted queue unless its replay has succeeded.
C4_NoEntryLost == \A u \in Created : InQueue(u) \/ u \in succeeded

\* C5 -- no duplicate pending entries: the persisted queue never holds two
\* entries with the same endpoint and the same serialized options, and a
\* call that is queued while an entry for the same endpoint and options is
\* pending leaves the queue as it was.
C5_NoDuplicates ==
  /\ \A j, k \in 1..Len(queue) :
       j < k => ~(/\ queue[j].endpoint = queue[k].endpoint
                  /\ JSONStringify(queue[j].options) = JSONStringify(queue[k].options))
  /\ (last.done /\ last.ret = "queued" /\ last.present) => queue = last.before

\* A second identical mutating call has been queued while the first is pending.
C5_Witness ==
  /\ last.done /\ last.ret = "queued" /\ last.present
  /\ Len(queue) = 1

\* C6 -- partial-failure isolation: the queue a completed pass persists is
\* the subsequence of its snapshot whose replays failed, in snapshot order.
FailedOf(d) ==
  LET F[k \in 0..Len(d.snapshot)] ==
        IF k = 0 THEN <<>>
        ELSE IF d.snapshot[k].uid \in d.failed THEN Append(F[k - 1], d.snapshot[k])
        ELSE F[k - 1]
  IN F[Len(d.snapshot)]

C6_PartialFailure == lastDone.done => queue = FailedOf(lastDone)

\* A pass over two entries has completed with both replays failed.
C6_Witness ==
  /\ lastDone.done
  /\ Len(lastDone.snapshot) = 2
  /\ Len(queue) = 2

\* C7 -- per-entry isolation: a completed pass has called api() exactly once
\* for every entry of its snapshot, whether or not earlier replays failed.
C7_EveryEntryAttempted ==
  lastDone.done =>
    /\ Len(lastDone.sent) = Len(lastDone.snapshot)
    /\ \A k \in 1..Len(lastDone.snapshot) :
         Cardinality({j \in 1..Len(lastDone.sent) :
                        lastDone.sent[j] = lastDone.snapshot[k].uid}) = 1

\* A pass whose first replay failed has gone on to replay the second entry,
\* which succeeded.
C7_Witness ==
  /\ lastDone.done
  /\ Len(lastDone.snapshot) = 2
  /\ lastDone.failed = {lastDone.snapshot[1].uid}
  /\ lastDone.successCount = 1

\* C8 -- a mutating call with skipQueue = false that ends in a connectivity
\* failure returns the queued sentinel, and the queue is the one before the
\* call plus the attempt unless an identical entry was pending.
C8_MutationQueued ==
  (last.done /\ ~last.skipQueue /\ isMutation(last.options) /\ ConnectivityFailure(last)) =>
    /\ last.ret = "queued"
    /\ IF last.present THEN queue = last.before
       ELSE /\ Len(queue) = Len(last.before) + 1
            /\ SubSeq(queue, 1, Len(last.before)) = last.before
            /\ queue[Len(queue)].endpoint = last.endpoint
            /\ queue[Len(queue)].options = last.options

\* A mutating call made while online has failed with 'Failed to fetch' and
\* has been queued.
C8_Witness ==
  /\ last.done /\ isMutation(last.options)
  /\ last.outcome = FailedToFetch /\ last.onLine
  /\ last.ret = "queued" /\ Len(queue) = Len(last.before) + 1

\* C9 -- server rejections are never queued: a mutating call that received
\* a 401, 403 or other error status throws and leaves the queue unchanged,
\* whatever navigator.onLine is.
C9_RejectionNeverQueued ==
  (last.done /\ isMutation(last.options) /\ ServerRejection(last)) =>
    /\ last.ret = "throw"
    /\ queue = last.before

\* C10 -- read calls never queue: a call whose method is not POST, PUT or
\* DELETE that hits a connectivity failure throws and leaves the queue
\* unchanged.
C10_ReadNeverQueued ==
  (last.done /\ last.options.method \notin {"POST", "PUT", "DELETE"}
     /\ ConnectivityFailure(last)) =>
    /\ last.ret = "throw"
    /\ queue = last.before

\* A read made while offline has failed.
C10_Witness ==
  /\ last.done /\ last.options.method = Undefined
  /\ last.outcome.kind = "reject" /\ ~last.onLine
  /\ last.ret = "throw"

\* C11 -- replay never re-enqueues: an api() call made by a drain pass
\* (skipQueue = true) never returns the queued sentinel and leaves the
\* persisted queue as it was before the call, whatever its outcome.
C11_ReplayNeverEnqueues ==
  (last.done /\ last.skipQueue) =>
    /\ last.ret # "queued"
    /\ queue = last.before

\* A replay has hit a connectivity failure and has thrown, the queue being
\* left as it was.
C11_Witness ==
  /\ last.done /\ last.skipQueue /\ last.pass # 0
  /\ ConnectivityFailure(last)
  /\ last.ret = "throw" /\ queue = last.before

\* C12 -- a call that received a 401 response removes the session record,
\* shows the login screen and fails to its caller: it returns neither a
\* success payload nor the queued sentinel.
C12_UnauthorizedFails ==
  (last.done /\ last.outcome = Response(401)) =>
    /\ session = "none"
    /\ screen = "login"
    /\ last.ret = "throw"

\* C13 -- idempotent empty drain: a syncOfflineData() called while the
\* persisted queue is empty or navigator.onLine is false starts no replay and
\* leaves the queue and the indicator (text, syncing flag, button) as they
\* were at its call.
C13_EmptyDrainNoOp ==
  (lastEvent.kind \in {"online", "click"} /\ (Len(lastEvent.queue) = 0 \/ ~onLine)) =>
    /\ queue = lastEvent.queue
    /\ pass = lastEvent.pass
    /\ ind = lastEvent.atCall

\* The 'online' listener has called syncOfflineData() with an empty queue.
C13_Witness ==
  /\ lastEvent.kind = "online"
  /\ Len(lastEvent.queue) = 0
  /\ pass = lastEvent.pass
  /\ ind.text = OnlineText /\ ~ind.syncing

\* C14 -- an 'online' event sets the indicator to the online state and then
\* calls syncOfflineData() exactly once: the indicator is online, one pass
\* more is active and the indicator reads 'Syncing...' if entries are
\* pending, whatever their number, and no pass has started otherwise.
C14_OnlineEventDrainsOnce ==
  lastEvent.kind = "online" =>
    /\ onLine
    /\ queue = lastEvent.queue
    /\ ind.cls = "online"
    /\ ind.btnHidden = (Len(queue) = 0)
    /\ IF Len(queue) > 0
       THEN /\ Len(pass) = Len(lastEvent.pass) + 1
            /\ SubSeq(pass, 1, Len(lastEvent.pass)) = lastEvent.pass
            /\ pass[Len(pass)].queue = queue
            /\ ind.text = SyncingText /\ ind.syncing /\ ind.btnDisabled
       ELSE /\ pass = lastEvent.pass
            /\ ind.text = OnlineText

\* An 'online' event has found two pending entries and has started one pass.
C14_Witness ==
  /\ lastEvent.kind = "online"
  /\ Len(queue) = 2
  /\ Len(pass) = Len(lastEvent.pass) + 1
  /\ ind.text = SyncingText

\* C15 -- an 'offline' event only sets the indicator to the offline state:
\* the persisted queue and the active passes are as they were, so no drain
\* and no network call has been started.
C15_OfflineEventOnlyIndicator ==
  lastEvent.kind = "offline" =>
    /\ ~onLine
    /\ queue = lastEvent.queue
    /\ pass = lastEvent.pass
    /\ ind.cls = "offline" /\ ind.text = OfflineText /\ ind.btnHidden
    /\ ind.syncing = lastEvent.ind.syncing

\* An 'offline' event has come while an entry is pending and a pass is active.
C15_Witness ==
  /\ lastEvent.kind = "offline"
  /\ Len(queue) > 0 /\ Len(pass) > 0
  /\ ind.text = OfflineText

\* C16 -- a completed pass has refreshed the active view exactly once if at
\* least one of its replays succeeded, and not at all if every replay failed.
C16_RefreshOnce ==
  lastDone.done =>
    lastDone.refreshes =
      IF Len(lastDone.snapshot) > Cardinality(lastDone.failed) THEN 1 ELSE 0

\* A pass whose two replays succeeded has refreshed the view once.
C16_Witness ==
  /\ lastDone.done
  /\ Len(lastDone.snapshot) = 2 /\ lastDone.failed = {}
  /\ lastDone.refreshes = 1

\* C17 -- whenever no pass is active the indicator reads 'Offline' with the
\* button hidden when offline, 'N Pending' with the button shown when online
\* with N > 0 pending entries, and 'Online' with the button hidden when online
\* with an empty queue.
C17_IndicatorReflectsState ==
  Len(pass) = 0 =>
    IF ~onLine THEN ind.text = OfflineText /\ ind.btnHidden
    ELSE IF Len(queue) > 0 THEN ind.text = PendingText(Len(queue)) /\ ~ind.btnHidden
    ELSE ind.text = OnlineText /\ ind.btnHidden

\* A pass has completed online with one replay failed: '1 Pending'.
C17_Witness ==
  /\ lastDone.done /\ Len(pass) = 0
  /\ onLine /\ Len(queue) = 1
  /\ ind.text = PendingText(1) /\ ~ind.btnHidden

\* C18 -- while a drain pass is active the 'sync now' button stays disabled.
C18_ButtonDisabledDuringPass == Len(pass) > 0 => ind.btnDisabled

\* C19 -- the indicator has the 'syncing' state exactly while a drain pass
\* is active.
C19_SyncingWhileActive == ind.syncing <=> Len(pass) > 0

\* C20 -- replay failures are silent: a replay that has thrown has shown no
\* alert and has left the session and the screen as they were.
C20_ReplayFailuresSilent ==
  (last.done /\ last.skipQueue /\ last.ret = "throw") =>
    /\ ~last.alert
    /\ session = last.session

\* C26 -- a drain pass works on the snapshot read at its start: the list a
\* pass iterates is the one it read when it started, whatever is enqueued
\* afterwards, and the pass calls api() for entries of that list only.
InList(u, q) == \E k \in 1..Len(q) : q[k].uid = u

C26_SnapshotOnly ==
  /\ \A p \in Passes :
       /\ Len(pass[p].queue) = pass[p].size
       /\ \A k \in 1..Len(pass[p].sent) : InList(pass[p].sent[k], pass[p].queue)
  /\ (lastEvent.kind \in {"online", "click"} /\ Len(pass) > Len(lastEvent.pass)) =>
       pass[Len(pass)].queue = lastEvent.queue
  /\ lastDone.done =>
       /\ Len(lastDone.snapshot) = lastDone.size
       /\ Len(lastDone.sent) = lastDone.size

\* A pass has completed without replaying an entry that was enqueued after
\* its start and was in the persisted queue when it ended.
C26_Witness ==
  /\ lastDone.done
  /\ \E k \in 1..Len(lastDone.before) :
       /\ \A j \in 1..Len(lastDone.snapshot) :
            lastDone.snapshot[j].uid < lastDone.before[k].uid
       /\ \A j \in 1..Len(lastDone.sent) : lastDone.sent[j] # lastDone.before[k].uid

\* C27 -- entries are never mutated in place: every entry of the persisted
\* queue, and of the list of every pass, has the id, endpoint, options and
\* timestamp it was created with.
Unchanged(e) ==
  /\ e.id = e.orig.id
  /\ e.endpoint = e.orig.endpoint
  /\ e.options = e.orig.options
  /\ e.timestamp = e.orig.timestamp

C27_EntriesImmutable ==
  /\ \A k \in 1..Len(queue) : Unchanged(queue[k])
  /\ \A p \in Passes : \A k \in 1..Len(pass[p].remaining) : Unchanged(pass[p].remaining[k])

\* A pass has completed with a failed replay and the entry is back in the
\* persisted queue as it was created.
C27_Witness ==
  /\ lastDone.done
  /\ Len(queue) > 0
  /\ queue[1].uid \in lastDone.failed
  /\ Unchanged(queue[1])

\* C28 -- entry ids are non-decreasing along the persisted queue, and an id
\* collision does not corrupt the queue: a call queued in the millisecond of
\* a pending entry is appended as any other, and the queue a completed pass
\* persists keeps of two entries with the same id exactly those whose replay
\* failed.
SameId(q) == {pr \in (1..Len(q)) \X (1..Len(q)) : pr[1] < pr[2] /\ q[pr[1]].id = q[pr[2]].id}

C28_IdsMonotone ==
  /\ \A j, k \in 1..Len(queue) : j < k => queue[j].id <= queue[k].id
  /\ (last.done /\ last.ret = "queued" /\ ~last.present) =>
       /\ Len(queue) = Len(last.before) + 1
       /\ queue[Len(queue)].id <= now
       /\ queue[Len(queue)].timestamp = toISOString(now)
  /\ lastDone.done =>
       \A pr \in SameId(lastDone.snapshot) :
         \A n \in {pr[1], pr[2]} :
           (lastDone.snapshot[n].uid \in lastDone.failed)
             <=> (\E k \in 1..Len(queue) : queue[k] = lastDone.snapshot[n])

\* A pass over two entries with the same id has completed: the replay of the
\* first succeeded, that of the second failed, and only the second is kept.
C28_Witness ==
  /\ lastDone.done
  /\ Len(lastDone.snapshot) = 2
  /\ lastDone.snapshot[1].id = lastDone.snapshot[2].id
  /\ lastDone.failed = {lastDone.snapshot[2].uid}
  /\ queue = <<lastDone.snapshot[2]>>

\* C29 -- the persisted queue after a pass is the entries of its snapshot
\* whose replay failed, followed by the entries enqueued during the pass.
\* The entries enqueued during the pass d that were pending when it ended:
\* those of the persisted queue of that moment that were created after every
\* entry of the snapshot.
EnqueuedDuring(d) ==
  LET E[k \in 0..Len(d.before)] ==
        IF k = 0 THEN <<>>
        ELSE IF \A j \in 1..Len(d.snapshot) : d.snapshot[j].uid < d.before[k].uid
             THEN Append(E[k - 1], d.before[k])
        ELSE E[k - 1]
  IN E[Len(d.before)]

C29_NoLockNeeded ==
  lastDone.done => queue = FailedOf(lastDone) \o EnqueuedDuring(lastDone)

\* C30 -- connectivity lost in the middle of a pass loses nothing: a replay
\* made while offline that fails throws without enqueuing, the pass goes on
\* to the end of its snapshot, and a pass that completes offline persists
\* every entry of its snapshot whose replay failed, in snapshot order.
C30_OfflineMidPass ==
  /\ (last.done /\ last.skipQueue /\ ~last.onLine /\ last.outcome # Response(200)) =>
       /\ last.ret = "throw"
       /\ queue = last.before
  /\ (lastDone.done /\ ~onLine) =>
       /\ Len(lastDone.sent) = Len(lastDone.snapshot)
       /\ Uids(queue) = Uids(FailedOf(lastDone))
       /\ lastDone.successCount
            = Len(lastDone.snapshot) - Cardinality(lastDone.failed)

\* A pass over two entries has completed offline: the first replay had
\* succeeded, the second failed and its entry is the one kept.
C30_Witness ==
  /\ lastDone.done /\ ~onLine
  /\ Len(lastDone.snapshot) = 2
  /\ lastDone.failed = {lastDone.snapshot[2].uid}
  /\ Uids(queue) = <<lastDone.snapshot[2].uid>>

\* C24 -- eventual drain: when every replay in flight completes, from a
\* state where a pass is active, the system is
\* online and no replay of an active pass has failed, the program reaches a
\* completed pass with the persisted queue empty, one refresh of the view
\* and the indicator reading 'Online', unless the system goes offline or the
\* server does not accept a replay.
Drained ==
  /\ lastDone.done
  /\ Len(queue) = 0
  /\ lastDone.refreshes = 1
  /\ ind.text = OnlineText

ReplayRejected == last.done /\ last.skipQueue /\ last.ret = "throw"

C24_EventualDrain ==
  RepliesComplete =>
    ((Len(pass) > 0 /\ onLine /\ \A p \in Passes : pass[p].failed = {})
       ~> (Drained \/ ~onLine \/ ReplayRejected))

\* A pass started by an 'online' event has replayed its entry with success
\* and has left the queue empty and the indicator on 'Online'.
C24_Witness ==
  /\ Drained
  /\ onLine
  /\ Len(lastDone.snapshot) > 0 /\ lastDone.failed = {}

\* C25 -- every drain pass terminates: a pass attempts no more entries than
\* its snapshot holds, and, given that every replay in flight completes or
\* is aborted by its timer, whenever a pass is active the oldest active
\* pass completes, with the syncing state of the indicator cleared; every
\* pass is the oldest once those before it have completed.
C25_PassTerminates ==
  /\ [](\A p \in Passes : Len(pass[p].sent) <= Len(pass[p].queue))
  /\ RepliesComplete =>
       ((Len(pass) > 0) ~> (lastDone.done /\ lastDone.index = 1 /\ ~ind.syncing))

\* A pass whose last replay was aborted by its timeout has completed.
C25_Witness ==
  /\ lastDone.done /\ ~ind.syncing
  /\ Len(lastDone.snapshot) = 2
  /\ lastDone.snapshot[2].uid \in lastDone.failed
  /\ Len(pass) = 0

\* C21 -- failed entries are retried regardless of the failure kind: an entry
\* whose replay has failed is in the persisted queue, from where every later
\* pass takes it, until a replay of it has succeeded.
C21_FailedRetried ==
  \A u \in failedEver : u \in succeeded \/ InQueue(u)

\* C22 -- fail-soft persistence: whatever the persisted record holds, no
\* operation on it raises, and a record that is absent, unparsable or not a
\* list is shown as an empty queue.
C22_FailSoft ==
  /\ ~store.raised
  /\ (store.op = "reload" /\ store.raw # "list") =>
       ind = updateSyncIndicator(NoIndicator, <<>>, onLine)

\* C23 -- a queued result is shown as accepted and pending: a UI action
\* whose api() call returned the queued sentinel shows neither the panel of
\* a confirmed check-in nor a rejection.
C23_QueuedShownPending ==
  (ui.done /\ ui.ret = "queued") =>
    ui.shown \notin {"welcome-panel", "denied-panel", "failed-panel", "alert"}

\* C31 -- at-most-once application: no user action is applied on the server
\* twice, once by the original call and once by a replay of its entry, or by
\* two replays.
C31_AtMostOnce ==
  \A u \in 1..MaxEnqueue : applied[u] <= 1

\* C32 -- a login attempt is never queued: no entry of the persisted queue
\* holds the credentials of a login call, a login that hit a connectivity
\* failure has shown the error of the login form, and the stored session is
\* never the result of a queued call.
C32_LoginNeverQueued ==
  /\ \A k \in 1..Len(queue) : queue[k].endpoint # "/login"
  /\ session # "queued"
  /\ (auth.login = "pending" /\ last.done /\ ConnectivityFailure(last))
       => last.ret = "throw"

\* C33 -- the application shell is shown only while a session holding a
\* token is stored.
C33_ShellNeedsToken ==
  screen = "app" => hasToken(session)

\* C34 -- a queued entry is replayed with the credential of the session that
\* created it: an entry created under a session with a token is never sent
\* carrying another token.
C34_ReplayAsCreator ==
  \A u \in 1..MaxEnqueue :
    (hasToken(auth.owner[u]) /\ hasToken(auth.sentAs[u]))
      => auth.sentAs[u] = auth.owner[u]

\* C35 -- logout leaves the queue unchanged: a step in which logout() runs
\* (the click on the logout button, or a 401 response to a call of a UI
\* action or to a replay) does not change the persisted queue, and a pass
\* has attempted every entry of its snapshot when it completes, whatever
\* its replays received.
LogoutStep ==
  \/ session # "none" /\ session' = "none"
  \/ ~last.done /\ last'.done /\ last'.outcome = Response(401)

C35_LogoutKeepsQueue ==
  /\ [][LogoutStep => queue' = queue]_vars
  /\ [](lastDone.done => lastDone.sent = Uids(lastDone.snapshot))

\* C36 -- application start does not drain: when the DOMContentLoaded
\* handler has run, the persisted queue is what it was, no replay is in
\* flight and the indicator is the one computed from the queue; a pass is
\* started by an 'online' event or a click on 'sync now' only.
C36_StartDoesNotDrain ==
  /\ [](lastEvent.kind = "load" =>
          /\ queue = lastEvent.queue
          /\ Len(pass) = 0
          /\ ind = updateSyncIndicator(NoIndicator, queue, onLine))
  /\ [][Len(pass') > Len(pass) => lastEvent'.kind \in {"online", "click"}]_vars

\* The page has been loaded online with a pending entry: a drain would have
\* started had the handler called syncOfflineData().
C36_Witness ==
  /\ lastEvent.kind = "load"
  /\ onLine
  /\ Len(queue) > 0
  /\ ind.text = PendingText(Len(queue))

\* C37 -- the service worker never answers an API or mutating request from
\* its cache: for a fetch event whose method is not GET or whose URL holds
\* '/api/' the handler has not called respondWith, the request has gone to
\* the network and a failure of the network is what the page observes; the
\* URL api() fetches for an endpoint that starts with '/' is such a URL.
C37_ApiBypassesCache ==
  /\ (/\ sw.handled
      /\ sw.method # "GET" \/ includes(sw.url, <<"/", "a", "p", "i", "/">>))
       => /\ ~sw.responded
          /\ sw.from = "network"
          /\ sw.result = sw.net
  /\ \A rest \in Seqs(UrlChars, 1) :
       includes(apiUrl(<<"/">> \o rest), <<"/", "a", "p", "i", "/">>)

\* A GET of an API URL that is in the cache has been handled while the
\* network fails.
C37_Witness ==
  /\ sw.handled
  /\ sw.method = "GET"
  /\ sw.url = apiUrl(<<"/", "a">>)
  /\ sw.cached
  /\ sw.net = "fail"
  /\ sw.result = "fail"

====
